---- MODULE Spec2Model ----
(***************************************************************************)
(* Model of the video frame store and annotation ledger of MIGE            *)
(* (src/video_annotator.py, VideoAnnotatorCore) together with the          *)
(* fill-between operation, the playback and the key labelling of the       *)
(* window (src/gaze_encoder_app.py).                                       *)
(*                                                                         *)
(* The decoder backend (cv2.VideoCapture) and the file system are the      *)
(* environment: a stream is described by the number of frames it can       *)
(* decode, the frame count and fps it reports, and whether it opens.       *)
(***************************************************************************)
EXTENDS Integers, Sequences, FiniteSets, TLC

VARIABLES cap, path, frame_count, fps, current_frame, annotations,
          frame_cache, fs, last,
          play_timer, label_timer, label_delay_timer, long_press_timer,
          is_long_press, active_label_char, encoding_mode

\* the timers, the held key and the encoding mode of the window
window == <<play_timer, label_timer, label_delay_timer, long_press_timer,
            is_long_press, active_label_char, encoding_mode>>

vars == <<cap, path, frame_count, fps, current_frame, annotations,
          frame_cache, fs, last, window>>

(***************************************************************************)
(* Bounds of the model and constants of the program                        *)
(***************************************************************************)
\* frames primed into the cache by load_video
CacheLimit == 60
\* fps used when the backend reports none
DefaultFps == 30
\* decodable frames of the long stream: CacheLimit + LongExtra
LongExtra == 2
\* decodable frames of the short, honestly reported stream
ShortLen == 4
\* decodable frames of the stream whose container over-reports by one
TinyLen == 2
\* largest frame index handed to SetLabel
MaxLabelFrame == 2

LongLen == CacheLimit + LongExtra

(***************************************************************************)
(* Values                                                                  *)
(***************************************************************************)
\* Python's None where a string is expected
None == "<None>"
\* a video path is <<base name, extension>>
NoPath == <<>>
NoFrame == <<>>
EmptyMap == [k \in {} |-> k]

PathA == <<"a", ".mp4">>
PathA2 == <<"a", ".avi">>
PathB == <<"b", ".mp4">>
PathB2 == <<"b", ".avi">>
PathU == <<"u", ".mp4">>
PathZ == <<"z", ".mp4">>
PathE == <<"e", ".mp4">>
PathBad == <<"bad", ".mp4">>
VideoPaths == {PathA, PathA2, PathB, PathB2, PathU, PathZ, PathE, PathBad}

\* The streams on disk: frames that decode (n), reported frame count
\* (reported), reported fps (0 when the backend reports none), and the frames
\* that fail to decode right after a seek but decode once the frame before
\* them was decoded (cold).
\*   a.mp4  short, honestly reported
\*   a.avi  over-reported by one frame, no fps; shares a.mp4's sidecar
\*   b.mp4  longer than the cache, its last frame cold
\*   b.avi  longer than the cache, over-reported by one frame
\*   u.mp4  under-reported by one frame
\*   z.mp4  no frame count reported
\*   e.mp4  opens, decodes nothing and reports nothing
Stream(p) ==
    CASE p = PathA  -> [opens |-> TRUE, n |-> ShortLen, reported |-> ShortLen,
                        fps |-> 25, cold |-> {}]
      [] p = PathA2 -> [opens |-> TRUE, n |-> TinyLen, reported |-> TinyLen + 1,
                        fps |-> 0, cold |-> {}]
      [] p = PathB  -> [opens |-> TRUE, n |-> LongLen, reported |-> LongLen,
                        fps |-> 25, cold |-> {LongLen - 1}]
      [] p = PathB2 -> [opens |-> TRUE, n |-> LongLen, reported |-> LongLen + 1,
                        fps |-> 25, cold |-> {}]
      [] p = PathU  -> [opens |-> TRUE, n |-> ShortLen, reported |-> ShortLen - 1,
                        fps |-> 25, cold |-> {}]
      [] p = PathZ  -> [opens |-> TRUE, n |-> TinyLen, reported |-> 0,
                        fps |-> 25, cold |-> {}]
      [] p = PathE  -> [opens |-> TRUE, n |-> 0, reported |-> 0,
                        fps |-> 0, cold |-> {}]
      [] OTHER      -> [opens |-> FALSE, n |-> 0, reported |-> 0,
                        fps |-> 0, cold |-> {}]

\* frame i of the stream at p
FrameOf(p, i) == <<p, i>>

(***************************************************************************)
(* The decoder backend: cv2.VideoCapture                                   *)
(***************************************************************************)
\* self.cap = None
NoCap == [obj |-> FALSE, src |-> NoPath, opened |-> FALSE, pos |-> 0, warm |-> FALSE]

\* cv2.VideoCapture(filepath)
NewCap(p) ==
    [obj |-> TRUE, src |-> p, opened |-> Stream(p).opens, pos |-> 0, warm |-> FALSE]

\* `if self.cap`: any capture object is truthy, released or not
Truthy(c) == c.obj

\* cap.release()
Release(c) == [c EXCEPT !.opened = FALSE]

\* cap.set(cv2.CAP_PROP_POS_FRAMES, i): a seek to the position the decoder is
\* at keeps the decoder warm
Seek(c, i) ==
    IF c.opened /\ c.pos # i THEN [c EXCEPT !.pos = i, !.warm = FALSE] ELSE c

\* does cap.read() / cap.grab() succeed
CanRead(c) ==
    /\ c.opened
    /\ c.pos >= 0
    /\ c.pos < Stream(c.src).n
    /\ (c.pos \notin Stream(c.src).cold \/ c.warm)

\* the frame cap.read() returns
ReadFrame(c) == IF CanRead(c) THEN FrameOf(c.src, c.pos) ELSE NoFrame

\* the capture after cap.read() / cap.grab()
AfterRead(c) ==
    IF CanRead(c) THEN [c EXCEPT !.pos = c.pos + 1, !.warm = TRUE] ELSE c

(***************************************************************************)
(* Frame-count probe                                                       *)
(***************************************************************************)
Max(a, b) == IF a >= b THEN a ELSE b
Min(a, b) == IF a <= b THEN a ELSE b

\* the grab loop: [count, cap] after grabbing from c until a grab fails
RECURSIVE GrabAll(_, _)
GrabAll(c, count) ==
    IF CanRead(c) THEN GrabAll(AfterRead(c), count + 1)
    ELSE [count |-> count, cap |-> c]

\* lines 77-85: sequential count from frame 0, then max(count, reported)
ProbeByGrab(c, reported) ==
    LET g == GrabAll(Seek(c, 0), 0)
    IN  [count |-> Max(g.count, reported), cap |-> Seek(g.cap, 0)]

\* ProbeFrameCount that takes a reported count above 0 as it is
ProbeFrameCountTrusting(c, land) ==
    LET reported == Stream(c.src).reported
    IN  IF reported > 0 THEN [count |-> reported, cap |-> Seek(c, 0)]
        ELSE ProbeByGrab(c, reported)

\* _probe_frame_count(cap); land is what cap.get(POS_FRAMES) answers after
\* the failed read at reported - 1
ProbeFrameCount(c, land) ==
    LET reported == Stream(c.src).reported
        c1 == Seek(c, Max(0, reported - 1))
    IN  IF reported > 0
        THEN IF CanRead(c1)
             THEN [count |-> reported, cap |-> Seek(AfterRead(c1), 0)]
             ELSE IF land > 0
                  THEN [count |-> land, cap |-> Seek(AfterRead(c1), 0)]
                  ELSE ProbeByGrab(Seek(AfterRead(c1), 0), reported)
        ELSE ProbeByGrab(c, reported)

\* positions a backend may report after a failed read on the stream at p
Landings(p) == {0, Stream(p).n, Stream(p).reported}

(***************************************************************************)
(* Sidecar files: csv text as a header and rows of fields                  *)
(***************************************************************************)
Digits == <<"0", "1", "2", "3", "4", "5", "6", "7", "8", "9">>
IsDigit(ch) == \E d \in 1..10 : Digits[d] = ch
DigitVal(ch) == (CHOOSE d \in 1..10 : Digits[d] = ch) - 1

\* str(n) for n >= 0, as a sequence of characters
RECURSIVE StrOfNat(_)
StrOfNat(n) ==
    IF n < 10 THEN <<Digits[n + 1]>>
    ELSE Append(StrOfNat(n \div 10), Digits[(n % 10) + 1])

\* str(n)
StrOfInt(n) == IF n < 0 THEN <<"-">> \o StrOfNat(-n) ELSE StrOfNat(n)

\* s.strip() for the blank character
RECURSIVE StripLeft(_)
StripLeft(s) ==
    IF s # <<>> /\ Head(s) = " " THEN StripLeft(Tail(s)) ELSE s
RECURSIVE StripRight(_)
StripRight(s) ==
    IF s # <<>> /\ s[Len(s)] = " " THEN StripRight(SubSeq(s, 1, Len(s) - 1)) ELSE s
Strip(s) == StripRight(StripLeft(s))

Unsigned(s) == IF s # <<>> /\ Head(s) \in {"-", "+"} THEN Tail(s) ELSE s

\* does int(s) return (rather than raise ValueError)
IsIntLiteral(s) ==
    LET u == Unsigned(Strip(s))
    IN  u # <<>> /\ \A i \in 1..Len(u) : IsDigit(u[i])

RECURSIVE NatOfStr(_)
NatOfStr(u) ==
    IF u = <<>> THEN 0
    ELSE 10 * NatOfStr(SubSeq(u, 1, Len(u) - 1)) + DigitVal(u[Len(u)])

\* int(s)
IntOfStr(s) ==
    LET t == Strip(s)
    IN  IF t # <<>> /\ Head(t) = "-" THEN 0 - NatOfStr(Tail(t))
        ELSE NatOfStr(Unsigned(t))

NoFile == [exists |-> FALSE, header |-> <<>>, rows |-> <<>>]

Range(s) == {s[i] : i \in 1..Len(s)}

\* row.get(k): a short row holds None for the columns it lacks, and a column
\* the header lacks is no key of the row
Get(row, k) == IF k \in DOMAIN row THEN row[k] ELSE None

Falsy(v) == v = None \/ v = ""

\* Python's `a or b`
Or(a, b) == IF Falsy(a) THEN b ELSE a

\* line 100
ModeVal(row) == Or(Or(Get(row, "mode"), Get(row, "tag")), Get(row, "name"))

\* line 101: row.get("label", "") is "" only when the header has no label
GroupVal(header, row) ==
    Or(Get(row, "group"),
       IF "label" \in Range(header) THEN Get(row, "label") ELSE "")

\* line 99: int(row["frame"]) returns
FrameParses(row) == "frame" \in DOMAIN row /\ IsIntLiteral(row["frame"])

Put(m, k, v) == [x \in (DOMAIN m) \cup {k} |-> IF x = k THEN v ELSE m[x]]

\* LoadRow that keeps the entry a frame already has
LoadRowFirstWins(header, row, ann) ==
    IF Falsy(ModeVal(row)) \/ IntOfStr(row["frame"]) \in DOMAIN ann THEN ann
    ELSE Put(ann, IntOfStr(row["frame"]),
             [mode |-> ModeVal(row), group |-> GroupVal(header, row)])

\* lines 98-107, one row
LoadRow(header, row, ann) ==
    IF Falsy(ModeVal(row)) THEN ann
    ELSE Put(ann, IntOfStr(row["frame"]),
             [mode |-> ModeVal(row), group |-> GroupVal(header, row)])

\* lines 98-107: the rows from i on; stops where int(row["frame"]) raises
RECURSIVE LoadRows(_, _, _)
LoadRows(file, i, ann) ==
    IF i > Len(file.rows) THEN [ann |-> ann, raised |-> FALSE]
    ELSE IF ~FrameParses(file.rows[i]) THEN [ann |-> ann, raised |-> TRUE]
    ELSE LoadRows(file, i + 1, LoadRow(file.header, file.rows[i], ann))

\* load_csv(csv_path) on the file found there, into ann
LoadCsv(file, ann) ==
    IF ~file.exists THEN [ann |-> ann, raised |-> FALSE]
    ELSE LoadRows(file, 1, ann)

\* sorted(self.annotations.keys())
RECURSIVE SortedSeq(_)
SortedSeq(S) ==
    IF S = {} THEN <<>>
    ELSE LET m == CHOOSE x \in S : \A y \in S : x <= y
         IN  <<m>> \o SortedSeq(S \ {m})

\* csv.writer writes None as the empty field
WriteField(v) == IF v = None THEN "" ELSE v

\* WriteRow that drops the group
WriteRowNoGroup(ann, k) ==
    [frame |-> StrOfInt(k), mode |-> WriteField(ann[k].mode), group |-> ""]

\* lines 117-123
WriteRow(ann, k) ==
    [frame |-> StrOfInt(k), mode |-> WriteField(ann[k].mode),
     group |-> WriteField(ann[k].group)]

\* lines 113-123: the file save_csv writes
WriteFile(ann) ==
    LET keys == SortedSeq(DOMAIN ann)
    IN  [exists |-> TRUE, header |-> <<"frame", "mode", "group">>,
         rows |-> [i \in 1..Len(keys) |-> WriteRow(ann, keys[i])]]

\* derive_csv_path
DeriveCsvPath(p) == IF p = NoPath THEN "" ELSE p[1] \o "_labels.csv"

CsvPaths == {DeriveCsvPath(p) : p \in VideoPaths}

\* SaveCsv opening the file for append
SaveCsvAppend(p, ann, files) ==
    IF p = NoPath THEN files
    ELSE [files EXCEPT ![DeriveCsvPath(p)] =
            [exists |-> TRUE, header |-> WriteFile(ann).header,
             rows |-> @.rows \o WriteFile(ann).rows]]

\* SaveCsv that leaves an existing file alone
SaveCsvOnce(p, ann, files) ==
    IF p = NoPath \/ files[DeriveCsvPath(p)].exists THEN files
    ELSE [files EXCEPT ![DeriveCsvPath(p)] = WriteFile(ann)]

\* SaveCsv without the guard of lines 110-111
SaveCsvUnguarded(p, ann, files) ==
    [name \in (DOMAIN files) \cup {DeriveCsvPath(p)} |->
        IF name = DeriveCsvPath(p) THEN WriteFile(ann) ELSE files[name]]

\* save_csv: the file system afterwards
SaveCsv(p, ann, files) ==
    IF p = NoPath THEN files
    ELSE [files EXCEPT ![DeriveCsvPath(p)] = WriteFile(ann)]

\* os.path.exists + open
FileAt(files, name) == IF name \in DOMAIN files THEN files[name] ELSE NoFile

(***************************************************************************)
(* VideoAnnotatorCore                                                      *)
(***************************************************************************)
\* lines 46-50: how many of the k reads succeed before one fails
RECURSIVE PrimedLen(_, _)
PrimedLen(c, k) ==
    IF k <= 0 \/ ~CanRead(c) THEN 0 ELSE 1 + PrimedLen(AfterRead(c), k - 1)

\* PrimeCache that keeps the frame after the one it read
PrimeCacheShifted(c, k) ==
    LET len == PrimedLen(c, k)
    IN  [cache |-> [i \in 1..len |-> FrameOf(c.src, c.pos + i)],
         cap |-> IF len > 0 THEN [c EXCEPT !.pos = c.pos + len, !.warm = TRUE]
                 ELSE c]

\* lines 46-50: [cache, cap] after priming from c
PrimeCache(c, k) ==
    LET len == PrimedLen(c, k)
    IN  [cache |-> [i \in 1..len |-> FrameOf(c.src, c.pos + i - 1)],
         cap |-> IF len > 0 THEN [c EXCEPT !.pos = c.pos + len, !.warm = TRUE]
                 ELSE c]

\* AfterPrime that always rewinds
AfterPrimeRewind(c, cache, fc) == Seek(c, 0)

\* lines 51-54: where load_video leaves the decoder
AfterPrime(c, cache, fc) ==
    IF Len(cache) < fc THEN Seek(c, Len(cache)) ELSE Seek(c, 0)

\* lines 35-36
FpsOf(p) == IF Stream(p).fps > 0 THEN Stream(p).fps ELSE DefaultFps

\* line 25-26
ReleaseOld(c) == IF Truthy(c) THEN Release(c) ELSE c

\* OpenFail with the resets of lines 37-38 done before the isOpened test
OpenFailResets(p) ==
    /\ ~NewCap(p).opened
    /\ cap' = ReleaseOld(cap)
    /\ current_frame' = 0
    /\ frame_cache' = <<>>
    /\ last' = [op |-> "Open", arg |-> p, res |-> "fail"]
    /\ UNCHANGED <<path, frame_count, fps, annotations, fs>>

\* load_video, lines 28-30: the backend cannot open the path
OpenFail(p) ==
    /\ ~NewCap(p).opened
    /\ cap' = ReleaseOld(cap)
    /\ last' = [op |-> "Open", arg |-> p, res |-> "fail"]
    /\ UNCHANGED <<path, frame_count, fps, current_frame, annotations,
                   frame_cache, fs>>

\* what load_video computes from the stream alone, lines 34 and 44-54:
\* [count, probed, cache, cap], probed being the decoder after the probe
Loaded(p, land) ==
    LET pr == ProbeFrameCount(NewCap(p), land)
        pc == PrimeCache(Seek(pr.cap, 0), Min(CacheLimit, pr.count))
    IN  [count |-> pr.count, probed |-> pr.cap, cache |-> pc.cache,
         cap |-> AfterPrime(pc.cap, pc.cache, pr.count)]

\* Loaded, evaluated once per stream and landing position
LoadedTable ==
    [p \in {q \in VideoPaths : Stream(q).opens} |->
        [land \in Landings(p) |-> Loaded(p, land)]]

\* OpenOk without the clear of line 40
OpenOkMerging(p) ==
    /\ NewCap(p).opened
    /\ \E land \in Landings(p) :
         LET lv == LoadedTable[p][land]
             ld == LoadCsv(FileAt(fs, DeriveCsvPath(p)), annotations)
         IN  /\ path' = p
             /\ frame_count' = lv.count
             /\ fps' = FpsOf(p)
             /\ current_frame' = 0
             /\ annotations' = ld.ann
             /\ IF ld.raised
                THEN /\ cap' = lv.probed
                     /\ frame_cache' = <<>>
                     /\ last' = [op |-> "Open", arg |-> p, res |-> "raise",
                                 land |-> land]
                ELSE /\ cap' = lv.cap
                     /\ frame_cache' = lv.cache
                     /\ last' = [op |-> "Open", arg |-> p, res |-> "ok",
                                 land |-> land]
    /\ UNCHANGED fs

\* load_video, lines 32-56; ends early when load_csv raises
OpenOk(p) ==
    /\ NewCap(p).opened
    /\ \E land \in Landings(p) :
         LET lv == LoadedTable[p][land]
             ld == LoadCsv(FileAt(fs, DeriveCsvPath(p)), EmptyMap)
         IN  /\ path' = p
             /\ frame_count' = lv.count
             /\ fps' = FpsOf(p)
             /\ current_frame' = 0
             /\ annotations' = ld.ann
             /\ IF ld.raised
                THEN /\ cap' = lv.probed
                     /\ frame_cache' = <<>>
                     /\ last' = [op |-> "Open", arg |-> p, res |-> "raise",
                                 land |-> land]
                ELSE /\ cap' = lv.cap
                     /\ frame_cache' = lv.cache
                     /\ last' = [op |-> "Open", arg |-> p, res |-> "ok",
                                 land |-> land]
    /\ UNCHANGED fs

Open(p) == OpenFail(p) \/ OpenOk(p)

\* ReadFromCap without the retry of lines 146-153
ReadFromCapOnce(c, i) ==
    LET c1 == Seek(c, i)
    IN  IF CanRead(c1) THEN [frame |-> ReadFrame(c1), cap |-> AfterRead(c1)]
        ELSE [frame |-> NoFrame, cap |-> AfterRead(c1)]

\* _read_from_cap: [frame, cap]
ReadFromCap(c, i) ==
    LET c1 == Seek(c, i)
        c2 == AfterRead(Seek(AfterRead(c1), Max(0, i - 1)))
        c3 == Seek(c2, i)
    IN  IF CanRead(c1) THEN [frame |-> ReadFrame(c1), cap |-> AfterRead(c1)]
        ELSE IF i > 0
             THEN [frame |-> ReadFrame(c3), cap |-> AfterRead(c3)]
             ELSE [frame |-> NoFrame, cap |-> AfterRead(c1)]

\* FetchFrame with the range test letting frame_count through
FetchFrameLoose(c, fc, cache, i) ==
    IF ~Truthy(c) THEN [frame |-> NoFrame, cap |-> c]
    ELSE IF i < 0 \/ i > fc THEN [frame |-> NoFrame, cap |-> c]
    ELSE IF i < Len(cache) THEN [frame |-> cache[i + 1], cap |-> c]
    ELSE ReadFromCap(c, i)

\* get_frame, lines 157-168: [frame, cap]
FetchFrame(c, fc, cache, i) ==
    IF ~Truthy(c) THEN [frame |-> NoFrame, cap |-> c]
    ELSE IF i < 0 \/ i >= fc THEN [frame |-> NoFrame, cap |-> c]
    ELSE IF i < Len(cache) THEN [frame |-> cache[i + 1], cap |-> c]
    ELSE ReadFromCap(c, i)

\* GetFrame that moves the cursor also when no frame was found
GetFrameMoving(i) ==
    LET r == FetchFrame(cap, frame_count, frame_cache, i)
    IN  /\ cap' = r.cap
        /\ current_frame' = IF i >= 0 THEN i ELSE current_frame
        /\ last' = [op |-> "GetFrame", arg |-> i, frame |-> r.frame]
        /\ UNCHANGED <<path, frame_count, fps, annotations, frame_cache, fs>>

\* get_frame
GetFrame(i) ==
    LET r == FetchFrame(cap, frame_count, frame_cache, i)
    IN  /\ cap' = r.cap
        /\ current_frame' = IF r.frame = NoFrame THEN current_frame ELSE i
        /\ last' = [op |-> "GetFrame", arg |-> i, frame |-> r.frame]
        /\ UNCHANGED <<path, frame_count, fps, annotations, frame_cache, fs>>

\* ReadNextFrame that moves the cursor whether or not the read succeeds
ReadNextFrameCounting ==
    LET ok == Truthy(cap) /\ CanRead(cap)
    IN  /\ cap' = IF Truthy(cap) THEN AfterRead(cap) ELSE cap
        /\ current_frame' = current_frame + 1
        /\ last' = [op |-> "ReadNextFrame",
                    frame |-> IF ok THEN ReadFrame(cap) ELSE NoFrame]
        /\ UNCHANGED <<path, frame_count, fps, annotations, frame_cache, fs>>

\* read_next_frame
ReadNextFrame ==
    LET ok == Truthy(cap) /\ CanRead(cap)
    IN  /\ cap' = IF Truthy(cap) THEN AfterRead(cap) ELSE cap
        /\ current_frame' = IF ok THEN current_frame + 1 ELSE current_frame
        /\ last' = [op |-> "ReadNextFrame",
                    frame |-> IF ok THEN ReadFrame(cap) ELSE NoFrame]
        /\ UNCHANGED <<path, frame_count, fps, annotations, frame_cache, fs>>

\* SetLabel that refuses a frame outside the loaded video
SetLabelChecked(f, m, g) ==
    /\ annotations' = IF f >= 0 /\ f < frame_count
                       THEN Put(annotations, f, [mode |-> m, group |-> g])
                       ELSE annotations
    /\ fs' = SaveCsv(path, annotations', fs)
    /\ last' = [op |-> "SetLabel", arg |-> f, mode |-> m, group |-> g]
    /\ UNCHANGED <<cap, path, frame_count, fps, current_frame, frame_cache>>

\* set_label
SetLabel(f, m, g) ==
    /\ annotations' = Put(annotations, f, [mode |-> m, group |-> g])
    /\ fs' = SaveCsv(path, annotations', fs)
    /\ last' = [op |-> "SetLabel", arg |-> f, mode |-> m, group |-> g]
    /\ UNCHANGED <<cap, path, frame_count, fps, current_frame, frame_cache>>

\* SaveSidecar that adds its rows to the rows the file has
SaveSidecarAppending ==
    /\ fs' = SaveCsvAppend(path, annotations, fs)
    /\ last' = [op |-> "SaveSidecar"]
    /\ UNCHANGED <<cap, path, frame_count, fps, current_frame, annotations,
                   frame_cache>>

\* save_csv
SaveSidecar ==
    /\ fs' = SaveCsv(path, annotations, fs)
    /\ last' = [op |-> "SaveSidecar"]
    /\ UNCHANGED <<cap, path, frame_count, fps, current_frame, annotations,
                   frame_cache>>

(***************************************************************************)
(* GazeEncoderApp.fill_between_labels                                      *)
(***************************************************************************)
NoIdx == -1

\* _find_neighbor_label: the index found, NoIdx for (None, None)
RECURSIVE ScanFrom(_, _, _, _)
ScanFrom(ann, fc, idx, step) ==
    IF ~(0 <= idx /\ idx < fc) THEN NoIdx
    ELSE IF idx \in DOMAIN ann THEN idx
    ELSE ScanFrom(ann, fc, idx + step, step)

\* FindNeighborLabel that returns the outermost labelled index of the side
FindNeighborLabelFar(ann, fc, start, step) ==
    LET S == {k \in DOMAIN ann :
                 /\ 0 <= k /\ k < fc
                 /\ IF step < 0 THEN k < start ELSE k > start}
    IN  IF S = {} THEN NoIdx
        ELSE CHOOSE x \in S :
                 \A y \in S : IF step < 0 THEN x <= y ELSE y <= x

FindNeighborLabel(ann, fc, start, step) == ScanFrom(ann, fc, start + step, step)

\* SameLabel that compares the mode only
SameMode(a, b) == a.mode = b.mode

\* lines 967-968
SameLabel(a, b) == a.mode = b.mode /\ a.group = b.group

\* FillTargets with the loop ending one index early
FillTargetsShort(ann, prev, next) ==
    {i \in (prev + 1)..(next - 2) : i \notin DOMAIN ann}

\* lines 977-983: the indices the loop assigns
FillTargets(ann, prev, next) == {i \in (prev + 1)..(next - 1) : i \notin DOMAIN ann}

\* lines 977-983: the map after the loop
Filled(ann, prev, next) ==
    [i \in (DOMAIN ann) \cup FillTargets(ann, prev, next) |->
        IF i \in DOMAIN ann THEN ann[i]
        ELSE [mode |-> ann[prev].mode, group |-> ann[prev].group]]

\* the outcome of fill_between_labels before any mutation
FillOutcome(c, ann, fc, cur) ==
    LET prev == FindNeighborLabel(ann, fc, cur, -1)
        next == FindNeighborLabel(ann, fc, cur, 1)
    IN  IF ~Truthy(c) THEN "no_video"
        ELSE IF cur \in DOMAIN ann THEN "rejected_labeled"
        ELSE IF prev = NoIdx \/ next = NoIdx THEN "rejected_bounds"
        ELSE IF ~SameLabel(ann[prev], ann[next]) THEN "rejected_mismatch"
        ELSE IF FillTargets(ann, prev, next) = {} THEN "noop"
        ELSE "filled"

\* fill_between_labels, with the goto_frame(cur) that ends it
FillBetween ==
    LET cur == current_frame
        prev == FindNeighborLabel(annotations, frame_count, cur, -1)
        next == FindNeighborLabel(annotations, frame_count, cur, 1)
        out == FillOutcome(cap, annotations, frame_count, cur)
        r == FetchFrame(cap, frame_count, frame_cache, cur)
    IN  /\ IF out = "filled"
           THEN /\ annotations' = Filled(annotations, prev, next)
                /\ fs' = SaveCsv(path, annotations', fs)
                /\ cap' = r.cap
                /\ last' = [op |-> "FillBetween", arg |-> cur, res |-> out,
                            filled |-> Cardinality(FillTargets(annotations, prev, next)),
                            prev |-> prev, next |-> next]
           ELSE /\ UNCHANGED <<annotations, fs, cap>>
                /\ last' = [op |-> "FillBetween", arg |-> cur, res |-> out]
        /\ UNCHANGED <<path, frame_count, fps, current_frame, frame_cache>>

(***************************************************************************)
(* GazeEncoderApp: opening, playback and labelling by key                  *)
(***************************************************************************)
\* label_map: the keys of the settings and the label each stands for
LabelMap == [k \in {"J", "K"} |->
                [mode |-> IF k = "J" THEN "A" ELSE "B", group |-> "x"]]

\* the tokens of the keyboard: the labelling keys and a key that is neither
\* a labelling key nor an action of the window
OtherKey == "Q"
Tokens == (DOMAIN LabelMap) \cup {OtherKey}

\* load_video of the window: the core's load_video, and after a success
\* get_frame(0), served from the cache just primed, and every timer stopped;
\* a failure and an exception of the core leave the window as it was
AppLoadVideo(p) ==
    /\ OpenFail(p) \/ OpenOk(p)
    /\ IF last'.res = "ok"
       THEN /\ active_label_char' = None
            /\ label_timer' = FALSE
            /\ label_delay_timer' = FALSE
            /\ long_press_timer' = FALSE
            /\ play_timer' = FALSE
            /\ UNCHANGED <<is_long_press, encoding_mode>>
       ELSE UNCHANGED window

\* goto_frame(idx, do_label=False), from the slider and the frame keys
GotoFrame(i) == GetFrame(i) /\ UNCHANGED window

\* toggle_play
TogglePlay ==
    /\ Truthy(cap)
    /\ play_timer' = ~play_timer
    /\ last' = [op |-> "TogglePlay"]
    /\ UNCHANGED <<cap, path, frame_count, fps, current_frame, annotations,
                   frame_cache, fs>>
    /\ UNCHANGED <<label_timer, label_delay_timer, long_press_timer,
                   is_long_press, active_label_char, encoding_mode>>

\* PlayNextFrame that goes on ticking after a read has failed
PlayNextFrameOn ==
    /\ play_timer
    /\ ReadNextFrame
    /\ UNCHANGED window

\* play_next_frame, a tick of play_timer: a failed read stops the timer
\* through toggle_play
PlayNextFrame ==
    /\ play_timer
    /\ ReadNextFrame
    /\ play_timer' = (last'.frame # NoFrame)
    /\ UNCHANGED <<label_timer, label_delay_timer, long_press_timer,
                   is_long_press, active_label_char, encoding_mode>>

\* keyPressEvent on the toggle_mode key, lines 796-799
ToggleMode ==
    /\ encoding_mode' = IF encoding_mode = "default" THEN "scroll" ELSE "default"
    /\ last' = [op |-> "ToggleMode"]
    /\ UNCHANGED <<cap, path, frame_count, fps, current_frame, annotations,
                   frame_cache, fs>>
    /\ UNCHANGED <<play_timer, label_timer, label_delay_timer,
                   long_press_timer, is_long_press, active_label_char>>

\* keyPressEvent on a key that is no action of the window: a labelling key
\* becomes the held key and starts the two single shots, any other key is
\* handed on
KeyPress(k) ==
    /\ IF k \in DOMAIN LabelMap
       THEN /\ active_label_char' = k
            /\ label_delay_timer' = TRUE
            /\ long_press_timer' = TRUE
            /\ is_long_press' = FALSE
       ELSE UNCHANGED <<active_label_char, label_delay_timer,
                        long_press_timer, is_long_press>>
    /\ last' = [op |-> "KeyPress", key |-> k]
    /\ UNCHANGED <<cap, path, frame_count, fps, current_frame, annotations,
                   frame_cache, fs, play_timer, label_timer, encoding_mode>>

\* KeyRelease that forgets the held key and leaves label_timer running
KeyReleaseKeepsTicking(k) ==
    /\ IF active_label_char = k
       THEN /\ active_label_char' = None
            /\ label_delay_timer' = FALSE
            /\ long_press_timer' = FALSE
            /\ UNCHANGED label_timer
       ELSE UNCHANGED <<active_label_char, label_timer, label_delay_timer,
                        long_press_timer>>
    /\ last' = [op |-> "KeyRelease", key |-> k]
    /\ UNCHANGED <<cap, path, frame_count, fps, current_frame, annotations,
                   frame_cache, fs, play_timer, is_long_press, encoding_mode>>

\* keyReleaseEvent: the release of the held key stops the labelling, the
\* release of any other key is handed on
KeyRelease(k) ==
    /\ IF active_label_char = k
       THEN /\ active_label_char' = None
            /\ label_timer' = FALSE
            /\ label_delay_timer' = FALSE
            /\ long_press_timer' = FALSE
       ELSE UNCHANGED <<active_label_char, label_timer, label_delay_timer,
                        long_press_timer>>
    /\ last' = [op |-> "KeyRelease", key |-> k]
    /\ UNCHANGED <<cap, path, frame_count, fps, current_frame, annotations,
                   frame_cache, fs, play_timer, is_long_press, encoding_mode>>

\* set_label(current_frame, ...) followed by goto_frame(idx): the core after
\* both, moved telling whether goto_frame found the frame
LabelAndGo(k, idx, op) ==
    LET r == FetchFrame(cap, frame_count, frame_cache, idx)
    IN  /\ annotations' = Put(annotations, current_frame, LabelMap[k])
        /\ fs' = SaveCsv(path, annotations', fs)
        /\ cap' = r.cap
        /\ current_frame' = IF r.frame = NoFrame THEN current_frame ELSE idx
        /\ last' = [op |-> op, arg |-> current_frame, key |-> k,
                    moved |-> r.frame # NoFrame]
        /\ UNCHANGED <<path, frame_count, fps, frame_cache>>

\* set_label(current_frame, ...) alone, as the scroll mode does it
LabelOnly(k, op) ==
    /\ annotations' = Put(annotations, current_frame, LabelMap[k])
    /\ fs' = SaveCsv(path, annotations', fs)
    /\ last' = [op |-> op, arg |-> current_frame, key |-> k, moved |-> FALSE]
    /\ UNCHANGED <<cap, path, frame_count, fps, current_frame, frame_cache>>

\* start_labeling_after_delay, the single shot of label_delay_timer: the
\* scroll mode labels the frame and stays, the default mode labels it and
\* moves on unless the press has become a long one
StartLabelingAfterDelay ==
    /\ label_delay_timer
    /\ label_delay_timer' = FALSE
    /\ IF active_label_char # None /\ Truthy(cap) /\ encoding_mode = "scroll"
       THEN LabelOnly(active_label_char, "LabelAfterDelay")
       ELSE IF active_label_char # None /\ Truthy(cap) /\ ~is_long_press
       THEN LabelAndGo(active_label_char,
                       Min(frame_count - 1, current_frame + 1), "LabelAfterDelay")
       ELSE /\ last' = [op |-> "LabelAfterDelay", moved |-> FALSE]
            /\ UNCHANGED <<cap, path, frame_count, fps, current_frame,
                           annotations, frame_cache, fs>>
    /\ UNCHANGED <<play_timer, label_timer, long_press_timer, is_long_press,
                   active_label_char, encoding_mode>>

\* start_continuous_labeling, the single shot of long_press_timer: nothing
\* in the scroll mode or without a held key
StartContinuousLabeling ==
    /\ long_press_timer
    /\ long_press_timer' = FALSE
    /\ IF encoding_mode = "scroll" \/ active_label_char = None
       THEN UNCHANGED <<is_long_press, label_timer>>
       ELSE is_long_press' = TRUE /\ label_timer' = TRUE
    /\ last' = [op |-> "StartContinuousLabeling"]
    /\ UNCHANGED <<cap, path, frame_count, fps, current_frame, annotations,
                   frame_cache, fs, play_timer, label_delay_timer,
                   active_label_char, encoding_mode>>

\* auto_label_step, a tick of label_timer
AutoLabelStep ==
    /\ label_timer
    /\ Truthy(cap) /\ active_label_char # None
    /\ IF current_frame + 1 >= frame_count
       THEN /\ annotations' = Put(annotations, current_frame,
                                  LabelMap[active_label_char])
            /\ fs' = SaveCsv(path, annotations', fs)
            /\ label_timer' = FALSE
            /\ last' = [op |-> "AutoLabelStep", arg |-> current_frame,
                        key |-> active_label_char, moved |-> FALSE]
            /\ UNCHANGED <<cap, path, frame_count, fps, current_frame, frame_cache>>
       ELSE /\ LabelAndGo(active_label_char, current_frame + 1, "AutoLabelStep")
            /\ UNCHANGED label_timer
    /\ UNCHANGED <<play_timer, label_delay_timer, long_press_timer,
                   is_long_press, active_label_char, encoding_mode>>

(***************************************************************************)
(* The system                                                              *)
(***************************************************************************)
\* a sidecar written by an older version: legacy columns, a repeated frame,
\* a row without a mode, a short row
LegacyFile ==
    [exists |-> TRUE, header |-> <<"frame", "mode", "tag", "label">>,
     rows |-> << [frame |-> <<"0">>, mode |-> "", tag |-> "B", label |-> "x"],
                 [frame |-> <<"0">>, mode |-> "A", tag |-> "B", label |-> ""],
                 [frame |-> <<"0", "1">>, mode |-> "", tag |-> "", label |-> "x"],
                 [frame |-> <<"2">>, mode |-> "A"] >>]

\* a sidecar with a row whose frame is no integer
BrokenFile ==
    [exists |-> TRUE, header |-> <<"frame", "mode", "group">>,
     rows |-> << [frame |-> <<"0">>, mode |-> "A", group |-> "x"],
                 [frame |-> <<"x">>, mode |-> "A", group |-> "x"],
                 [frame |-> <<"2">>, mode |-> "A", group |-> "x"] >>]

InitFiles(name) ==
    CASE name = DeriveCsvPath(PathA) -> {NoFile, LegacyFile, BrokenFile}
      [] OTHER -> {NoFile}

InitFs ==
    {f \in [CsvPaths -> {NoFile, LegacyFile, BrokenFile}] :
        \A name \in CsvPaths : f[name] \in InitFiles(name)}

\* the state after VideoAnnotatorCore.__init__, lines 12-19, in a window
\* whose timers are stopped, that has no key held and is in its default mode
Init ==
    /\ cap = NoCap
    /\ path = NoPath
    /\ frame_count = 0
    /\ fps = DefaultFps
    /\ current_frame = 0
    /\ annotations = EmptyMap
    /\ frame_cache = <<>>
    /\ fs \in InitFs
    /\ last = [op |-> "init"]
    /\ play_timer = FALSE
    /\ label_timer = FALSE
    /\ label_delay_timer = FALSE
    /\ long_press_timer = FALSE
    /\ is_long_press = FALSE
    /\ active_label_char = None
    /\ encoding_mode = "default"

\* The arguments of the callers.  Spec: the two short videos that share one
\* sidecar, with the labelling in full.
SpecPaths == {PathA, PathA2, PathBad}
FrameArgs == -1..ShortLen
LabelFrames == {0, MaxLabelFrame}
LabelArgs == {<<"A", "x">>, <<"", "">>}

Next ==
    \/ \E p \in SpecPaths : OpenFail(p) /\ UNCHANGED window
    \/ \E p \in SpecPaths : OpenOk(p) /\ UNCHANGED window
    \/ \E i \in FrameArgs : GetFrame(i) /\ UNCHANGED window
    \/ ReadNextFrame /\ UNCHANGED window
    \/ \E f \in LabelFrames, l \in LabelArgs : SetLabel(f, l[1], l[2]) /\ UNCHANGED window
    \/ SaveSidecar /\ UNCHANGED window
    \/ FillBetween /\ UNCHANGED window

Spec == Init /\ [][Next]_vars

\* StoreSpec: the videos longer than the cache beside the short over-reported
\* one, with frame access in full and one label.
StorePaths == {PathB, PathB2, PathA2, PathBad}
StoreFrameArgs == {-1, 0, 1} \cup ((CacheLimit - 1)..LongLen)
StoreLabelFrames == {0}
StoreLabelArgs == {<<"A", "x">>}

StoreNext ==
    \/ \E p \in StorePaths : OpenFail(p) /\ UNCHANGED window
    \/ \E p \in StorePaths : OpenOk(p) /\ UNCHANGED window
    \/ \E i \in StoreFrameArgs : GetFrame(i) /\ UNCHANGED window
    \/ ReadNextFrame /\ UNCHANGED window
    \/ \E f \in StoreLabelFrames, l \in StoreLabelArgs : SetLabel(f, l[1], l[2]) /\ UNCHANGED window
    \/ SaveSidecar /\ UNCHANGED window
    \/ FillBetween /\ UNCHANGED window

StoreSpec == Init /\ [][StoreNext]_vars

\* CsvSpec: one video labelled at frames whose numbers differ in sign and
\* in length, saved and opened again.
CsvFrames == {-1, 7, 10, 105}
CsvLabels == {<<"A", "x">>, <<"A", "">>, <<"", "x">>}

CsvNext ==
    \/ OpenOk(PathA) /\ UNCHANGED window
    \/ \E f \in CsvFrames, l \in CsvLabels : SetLabel(f, l[1], l[2]) /\ UNCHANGED window
    \/ SaveSidecar /\ UNCHANGED window

CsvSpec == Init /\ [][CsvNext]_vars

\* FillSpec: the long video labelled at a few frames around gaps, with
\* labels that differ in mode or in group, one of them past the last frame;
\* the cursor is put on labelled and on unlabelled frames.
FillFrames == {5, 10, 15, LongLen + 8}
FillLabels == {<<"A", "x">>, <<"B", "x">>, <<"A", "">>}
FillCursors == {3, 7, 10, 20}

FillNext ==
    \/ OpenOk(PathB) /\ UNCHANGED window
    \/ \E f \in FillFrames, l \in FillLabels : SetLabel(f, l[1], l[2]) /\ UNCHANGED window
    \/ \E i \in FillCursors : GetFrame(i) /\ UNCHANGED window
    \/ FillBetween /\ UNCHANGED window

FillSpec == Init /\ [][FillNext]_vars

\* ProbeSpec: the streams whose reported count is right, too large, too
\* small or absent, opened and read.
ProbePaths == {PathA, PathA2, PathU, PathZ, PathE, PathBad}
ProbeFrameArgs == 0..ShortLen

ProbeNext ==
    \/ \E p \in ProbePaths : OpenFail(p) /\ UNCHANGED window
    \/ \E p \in ProbePaths : OpenOk(p) /\ UNCHANGED window
    \/ \E i \in ProbeFrameArgs : GetFrame(i) /\ UNCHANGED window
    \/ ReadNextFrame /\ UNCHANGED window

ProbeSpec == Init /\ [][ProbeNext]_vars

\* the window starts in a folder without sidecar files
AppInit == Init /\ \A name \in DOMAIN fs : ~fs[name].exists

\* PlaySpec: the window playing a short and a long video, with seeks by the
\* user.  play_timer ticks for as long as it is active.
PlayPaths == {PathA, PathB, PathBad}
PlayFrameArgs == {0, CacheLimit, LongLen - 1}

PlayNext ==
    \/ \E p \in PlayPaths : AppLoadVideo(p)
    \/ \E i \in PlayFrameArgs : GotoFrame(i)
    \/ TogglePlay
    \/ PlayNextFrame

PlaySpec == AppInit /\ [][PlayNext]_vars /\ WF_vars(PlayNextFrame)

\* LabelSpec: the window over the short videos, labelled by a key pressed
\* and held.
LabelPaths == {PathA, PathA2, PathBad}
LabelFrameArgs == {0, ShortLen - 1}
LabelKeys == {"J"}

LabelNext ==
    \/ \E p \in LabelPaths : AppLoadVideo(p)
    \/ \E i \in LabelFrameArgs : GotoFrame(i)
    \/ \E k \in LabelKeys : KeyPress(k)
    \/ \E k \in LabelKeys : KeyRelease(k)
    \/ StartLabelingAfterDelay
    \/ StartContinuousLabeling
    \/ AutoLabelStep

LabelSpec == AppInit /\ [][LabelNext]_vars

\* KeySpec: the keyboard and the timers of the window in any order, over
\* a two-frame video whose sidecar does not load until labelling has
\* rewritten it.
KeyInit == Init /\ fs[DeriveCsvPath(PathA2)] = BrokenFile
KeyPaths == {PathA2, PathBad}

KeyNext ==
    \/ \E p \in KeyPaths : AppLoadVideo(p)
    \/ \E k \in Tokens : KeyPress(k)
    \/ \E k \in Tokens : KeyRelease(k)
    \/ ToggleMode
    \/ StartLabelingAfterDelay
    \/ StartContinuousLabeling
    \/ AutoLabelStep

KeySpec == KeyInit /\ [][KeyNext]_vars

(***************************************************************************)
(* Claims                                                                  *)
(***************************************************************************)
\* the sidecar of the loaded video
Sidecar == FileAt(fs, DeriveCsvPath(path))

\* C1: whenever a video is loaded the cursor is a frame index of it,
\* 0 <= current_frame < frame_count.
C1_CursorInRange ==
    cap.opened => (0 <= current_frame /\ current_frame < frame_count)

\* C2: after Open the frame count is the number of frames the stream
\* decodes, whatever count the container reports.
C2_CountAuthority ==
    (last.op = "Open" /\ last.res = "ok") => frame_count = Stream(path).n

\* C3: after a successful Open the store claims no frame it cannot retrieve:
\* frame_count is at most the number of decodable frames, and GetFrame on an
\* index below frame_count returns a frame.
C3_NoUnreachableFrame ==
    /\ (last.op = "Open" /\ last.res = "ok") => frame_count <= Stream(path).n
    /\ (last.op = "GetFrame" /\ cap.opened /\ frame_cache # <<>>
            /\ 0 <= last.arg /\ last.arg < frame_count)
         => last.frame # NoFrame

\* C4: after an Open that fails following a successful one, no video is
\* loaded: the capture reads as absent, GetFrame finds no frame at any index
\* and ReadNextFrame is at the end of the stream.
C4_FailedOpenUnloads ==
    (last.op = "Open" /\ last.res = "fail" /\ frame_cache # <<>>)
      => /\ ~Truthy(cap)
         /\ \A i \in FrameArgs :
               FetchFrame(cap, frame_count, frame_cache, i).frame = NoFrame
         /\ ~(Truthy(cap) /\ CanRead(cap))

\* C5: a failed Open changes neither path, frame_count, fps, current_frame,
\* the frame cache, the annotation map nor any sidecar file.
C5_FailedOpenFrame ==
    [][(last'.op = "Open" /\ last'.res = "fail")
         => UNCHANGED <<path, frame_count, fps, current_frame, frame_cache,
                        annotations, fs>>]_vars

\* C5 witness: an Open has failed while a video with labels was loaded
C5_Witness ==
    /\ last.op = "Open" /\ last.res = "fail"
    /\ path # NoPath /\ frame_cache # <<>> /\ current_frame > 0
    /\ DOMAIN annotations # {} /\ Sidecar.exists

\* a value as a csv field shows it: an absent value is the empty field
FieldText(v) == IF v = None THEN "" ELSE v

\* row is the record of frame k labelled lab
RowIs(row, k, lab) ==
    /\ DOMAIN row = {"frame", "mode", "group"}
    /\ IsIntLiteral(row.frame) /\ IntOfStr(row.frame) = k
    /\ row.mode = FieldText(lab.mode)
    /\ row.group = FieldText(lab.group)

\* file is the header and one row per key of ann, in ascending frame order
HoldsExactly(file, ann) ==
    /\ file.exists
    /\ file.header = <<"frame", "mode", "group">>
    /\ Len(file.rows) = Cardinality(DOMAIN ann)
    /\ \A i \in 1..Len(file.rows) :
          \E k \in DOMAIN ann : RowIs(file.rows[i], k, ann[k])
    /\ \A i, j \in 1..Len(file.rows) :
          i < j => IntOfStr(file.rows[i].frame) < IntOfStr(file.rows[j].frame)

\* every entry is a label: a non-empty mode and a group that may be empty
AllLabels(ann) ==
    \A k \in DOMAIN ann : ~Falsy(ann[k].mode) /\ ann[k].group # None

C7_SaveWritesMap ==
    (last.op = "SaveSidecar" /\ path # NoPath)
      => HoldsExactly(Sidecar, annotations)

\* C7 witness: a save of a map whose frames sort differently as text
C7_Witness ==
    /\ last.op = "SaveSidecar" /\ path # NoPath
    /\ {-1, 7, 10, 105} \subseteq DOMAIN annotations

\* the entries a file's rows denote, as the loader reads them
FileEntries(file) ==
    {<<IntOfStr(file.rows[i]["frame"]), ModeVal(file.rows[i]),
       GroupVal(file.header, file.rows[i])>> :
        i \in {j \in 1..Len(file.rows) : ~Falsy(ModeVal(file.rows[j]))}}

MapEntries(ann) == {<<k, ann[k].mode, ann[k].group>> : k \in DOMAIN ann}

\* C8 as claimed: with a video loaded, an existing (well-formed) sidecar
\* holds exactly the entries of the map, also right after Open loaded it.
C8_SidecarIsProjection ==
    (/\ path # NoPath /\ Sidecar.exists
     /\ \A i \in 1..Len(Sidecar.rows) : FrameParses(Sidecar.rows[i]))
      => FileEntries(Sidecar) = MapEntries(annotations)

\* C8 amended: with a video loaded, an existing sidecar is either exactly
\* the projection of the map (after a write) or the file the map was read
\* from by Open's LoadSidecar (before the first write).
C8_SidecarTracksMap ==
    (path # NoPath /\ Sidecar.exists)
      => \/ HoldsExactly(Sidecar, annotations)
         \/ LoadCsv(Sidecar, EmptyMap).ann = annotations

\* C8 witness: Open has loaded a sidecar that holds more than the map
C8_Witness ==
    /\ last.op = "Open" /\ last.res = "ok"
    /\ Sidecar.exists /\ DOMAIN annotations # {}
    /\ ~HoldsExactly(Sidecar, annotations)

\* C9: SetLabel puts (mode, group) at frame whatever the frame, keeps every
\* other entry, and with a video loaded rewrites the sidecar from the map.
C9_SetLabelUpserts ==
    [][last'.op = "SetLabel"
         => /\ DOMAIN annotations' = (DOMAIN annotations) \cup {last'.arg}
            /\ annotations'[last'.arg] =
                  [mode |-> last'.mode, group |-> last'.group]
            /\ \A k \in (DOMAIN annotations) \ {last'.arg} :
                  annotations'[k] = annotations[k]
            /\ path # NoPath => HoldsExactly(Sidecar', annotations')]_vars

\* C9 witness: a frame past the end of the loaded video has been labelled
\* and is in the sidecar
C9_Witness ==
    /\ last.op = "SetLabel" /\ cap.opened
    /\ last.arg >= frame_count
    /\ annotations[last.arg] = [mode |-> "A", group |-> "x"]
    /\ \E i \in 1..Len(Sidecar.rows) :
          RowIs(Sidecar.rows[i], last.arg, annotations[last.arg])

\* nearest labelled frames around cur inside [0, fc)
Below(ann, fc, cur) == {k \in DOMAIN ann : 0 <= k /\ k < cur /\ k < fc}
Above(ann, fc, cur) == {k \in DOMAIN ann : cur < k /\ k < fc}
MaxOf(S) == CHOOSE x \in S : \A y \in S : y <= x
MinOf(S) == CHOOSE x \in S : \A y \in S : x <= y

\* C10: FillBetween on an unlabelled cursor whose nearest labelled
\* neighbours inside the video carry the same (mode, group) gives that pair
\* to every frame strictly between them, keeps every entry there was,
\* reports how many frames it filled, and persists the map.
C10_GapFill ==
    [][(/\ last'.op = "FillBetween"
        /\ Truthy(cap)
        /\ 0 <= current_frame /\ current_frame < frame_count
        /\ current_frame \notin DOMAIN annotations
        /\ Below(annotations, frame_count, current_frame) # {}
        /\ Above(annotations, frame_count, current_frame) # {}
        /\ annotations[MaxOf(Below(annotations, frame_count, current_frame))]
             = annotations[MinOf(Above(annotations, frame_count, current_frame))])
         => LET prev == MaxOf(Below(annotations, frame_count, current_frame))
                next == MinOf(Above(annotations, frame_count, current_frame))
            IN  /\ last'.res = "filled"
                /\ DOMAIN annotations' =
                      (DOMAIN annotations) \cup ((prev + 1)..(next - 1))
                /\ \A i \in (prev + 1)..(next - 1) :
                      annotations'[i] = annotations[prev]
                /\ \A k \in DOMAIN annotations :
                      annotations'[k] = annotations[k]
                /\ last'.filled =
                      Cardinality((DOMAIN annotations') \ (DOMAIN annotations))
                /\ HoldsExactly(Sidecar', annotations')]_vars

\* C10 witness: labels at 5 and 15, the cursor on 10, nine frames filled
C10_Witness ==
    /\ last.op = "FillBetween" /\ last.res = "filled"
    /\ last.arg = 10 /\ last.prev = 5 /\ last.next = 15 /\ last.filled = 9
    /\ \A i \in 5..15 : annotations[i] = [mode |-> "A", group |-> "x"]

\* C11: FillBetween is rejected, and changes neither the map, the cursor nor
\* any sidecar file, when the cursor is labelled, when there is no labelled
\* frame inside [0, frame_count) below it or none above it, or when the
\* nearest labelled frames on the two sides differ in mode or in group.
C11_FillRejects ==
    [][(/\ last'.op = "FillBetween"
        /\ Truthy(cap)
        /\ \/ current_frame \in DOMAIN annotations
           \/ Below(annotations, frame_count, current_frame) = {}
           \/ Above(annotations, frame_count, current_frame) = {}
           \/ annotations[MaxOf(Below(annotations, frame_count, current_frame))]
                # annotations[MinOf(Above(annotations, frame_count, current_frame))])
         => /\ last'.res \in {"rejected_labeled", "rejected_bounds",
                               "rejected_mismatch"}
            /\ UNCHANGED <<annotations, current_frame, fs>>]_vars

\* C11 witness: labels (A,x) at 5 and (B,x) at 15, FillBetween on 10 rejected
C11_Witness ==
    /\ last.op = "FillBetween" /\ last.res = "rejected_mismatch"
    /\ last.arg = 10 /\ current_frame = 10
    /\ DOMAIN annotations = {5, 15}
    /\ annotations[5] = [mode |-> "A", group |-> "x"]
    /\ annotations[15] = [mode |-> "B", group |-> "x"]
    /\ Len(Sidecar.rows) = 2

\* C12: GetFrame on an index below 0 or at or above frame_count finds no
\* frame and changes neither current_frame, the cache nor the decoder.
C12_OutOfRange ==
    [][(last'.op = "GetFrame" /\ (last'.arg < 0 \/ last'.arg >= frame_count))
         => /\ last'.frame = NoFrame
            /\ UNCHANGED <<current_frame, frame_cache, cap>>]_vars

\* C12 witness: GetFrame(frame_count) on an open video whose cursor and
\* decoder had moved
C12_Witness ==
    /\ last.op = "GetFrame" /\ last.arg = frame_count /\ last.frame = NoFrame
    /\ cap.opened /\ frame_count > 0 /\ current_frame > 0 /\ cap.pos > 0

\* C13: with the cursor on the last frame (current_frame = frame_count - 1)
\* ReadNextFrame is at the end of the stream and leaves current_frame alone,
\* however the cursor got there.
C13_LastFrameEnds ==
    [][(/\ last'.op = "ReadNextFrame"
        /\ cap.opened /\ frame_count > 0
        /\ current_frame = frame_count - 1)
         => /\ last'.frame = NoFrame
            /\ current_frame' = current_frame]_vars

\* C14: ReadNextFrame seeks nowhere: it decodes at the decoder's position.
\* A read that succeeds returns that frame, moves the decoder and
\* current_frame on by one; a read that fails returns no frame and leaves
\* current_frame and the decoder's position alone.  Neither changes the
\* cache or the map.
C14_SequentialRead ==
    [][last'.op = "ReadNextFrame"
         => /\ IF last'.frame # NoFrame
               THEN /\ last'.frame = FrameOf(cap.src, cap.pos)
                    /\ cap'.pos = cap.pos + 1
                    /\ current_frame' = current_frame + 1
               ELSE /\ cap'.pos = cap.pos
                    /\ current_frame' = current_frame
            /\ UNCHANGED <<frame_cache, annotations>>]_vars

\* C14 witness: a read has failed at the end of the stream after reads that
\* succeeded, with labels in the map
C14_Witness ==
    /\ last.op = "ReadNextFrame" /\ last.frame = NoFrame
    /\ cap.opened /\ cap.pos = Stream(cap.src).n
    /\ current_frame > 1 /\ frame_cache # <<>> /\ DOMAIN annotations # {}

\* C15: a GetFrame that returns a frame, from the cache or by seek and
\* decode, returns frame index of the loaded video and sets current_frame to
\* index; one that finds no frame leaves current_frame and the cache alone,
\* and the GetFrame after it on an index that decodes still returns its frame.
C15_GetFrameCursor ==
    [][last'.op = "GetFrame"
         => /\ IF last'.frame # NoFrame
               THEN /\ current_frame' = last'.arg
                    /\ last'.frame = FrameOf(path, last'.arg)
               ELSE UNCHANGED <<current_frame, frame_cache>>
            /\ (/\ last.op = "GetFrame" /\ last.frame = NoFrame
                /\ cap.opened
                /\ 0 <= last'.arg /\ last'.arg < frame_count
                /\ last'.arg < Stream(path).n)
                 => last'.frame = FrameOf(path, last'.arg)]_vars

\* C15 witness: on the long video, an index past the cache that is inside
\* frame_count was not found after the retry, the cursor staying on a frame
\* past the cache that an earlier GetFrame had decoded
C15_Witness ==
    /\ last.op = "GetFrame" /\ last.frame = NoFrame
    /\ cap.opened /\ Len(frame_cache) = CacheLimit
    /\ CacheLimit <= last.arg /\ last.arg < frame_count
    /\ CacheLimit <= current_frame /\ current_frame < last.arg

\* the frame a direct seek and decode of index i returns on the stream of the
\* loaded video, wherever its decoder stands
DirectDecode(i) ==
    ReadFromCap(IF cap.opened THEN cap ELSE NewCap(path), i).frame

\* C16: in every state with a video loaded, for every i < min(60,
\* frame_count), the frame GetFrame(i) returns from the cache is frame i as
\* a direct seek and decode of i returns it, and while the stream is open
\* GetFrame(i) and a direct seek and decode of i return the same.
C16_CacheTransparent ==
    path # NoPath
      => \A i \in 0..(Min(CacheLimit, frame_count) - 1) :
            /\ i < Len(frame_cache)
                 => /\ FetchFrame(cap, frame_count, frame_cache, i).frame
                         = DirectDecode(i)
                    /\ DirectDecode(i) = FrameOf(path, i)
            /\ cap.opened
                 => FetchFrame(cap, frame_count, frame_cache, i).frame
                      = ReadFromCap(cap, i).frame

\* C16 witness: the last cached frame of a video longer than the cache was
\* served by GetFrame after the decoder had been moved past the cache
C16_Witness ==
    /\ last.op = "GetFrame" /\ last.arg = CacheLimit - 1
    /\ cap.opened /\ frame_count > CacheLimit /\ cap.pos > CacheLimit
    /\ last.frame = frame_cache[CacheLimit]
    /\ last.frame = DirectDecode(CacheLimit - 1)

\* C17: after a successful Open the cache holds the frames of indices
\* [0, min(60, frame_count)) of the loaded video, in order: its length is
\* min(60, frame_count) and its i-th frame is frame i.
C17_CacheIsPrefix ==
    (last.op = "Open" /\ last.res = "ok")
      => /\ Len(frame_cache) = Min(CacheLimit, frame_count)
         /\ \A i \in 1..Len(frame_cache) : frame_cache[i] = FrameOf(path, i - 1)

\* the frames a file has a row with a usable mode for
FileFrames(file) == {e[1] : e \in FileEntries(file)}

\* C18: after a successful Open the map holds entries of the opened video's
\* sidecar only, one for each frame the sidecar has a usable row for, and
\* nothing of what it held before; without a sidecar file the Open succeeds
\* and the map is empty.
C18_OpenReplacesMap ==
    /\ (last.op = "Open" /\ last.res = "ok")
         => /\ MapEntries(annotations) \subseteq FileEntries(Sidecar)
            /\ DOMAIN annotations = FileFrames(Sidecar)
    /\ (last.op = "Open" /\ last.res # "fail" /\ ~Sidecar.exists)
         => (last.res = "ok" /\ annotations = EmptyMap)

\* C18 witness: a video without a sidecar was opened after one whose labels
\* had been written to its own sidecar
C18_Witness ==
    /\ last.op = "Open" /\ last.res = "ok"
    /\ ~Sidecar.exists /\ annotations = EmptyMap
    /\ \E name \in CsvPaths :
          /\ FileAt(fs, name).header = <<"frame", "mode", "group">>
          /\ Len(FileAt(fs, name).rows) > 0
          /\ \A i \in 1..Len(FileAt(fs, name).rows) :
                FrameParses(FileAt(fs, name).rows[i])

\* the rows of file that have a usable mode and denote frame k
RowsFor(file, k) ==
    {j \in 1..Len(file.rows) :
        /\ ~Falsy(ModeVal(file.rows[j]))
        /\ IntOfStr(file.rows[j]["frame"]) = k}

\* C19: after a successful Open, a frame the sidecar has several rows with
\* a usable mode for has one entry, the mode and group of the last of these
\* rows in file order.
C19_LastRowWins ==
    (last.op = "Open" /\ last.res = "ok")
      => \A k \in FileFrames(Sidecar) :
            LET row == Sidecar.rows[MaxOf(RowsFor(Sidecar, k))]
            IN  /\ k \in DOMAIN annotations
                /\ annotations[k] = [mode |-> ModeVal(row),
                                     group |-> GroupVal(Sidecar.header, row)]

\* C19 witness: the sidecar loaded has two rows of different modes for one
\* frame, and the entry has the mode of the later one
C19_Witness ==
    /\ last.op = "Open" /\ last.res = "ok"
    /\ \E k \in FileFrames(Sidecar) :
          \E i, j \in RowsFor(Sidecar, k) :
             /\ i < j /\ j = MaxOf(RowsFor(Sidecar, k))
             /\ ModeVal(Sidecar.rows[i]) # ModeVal(Sidecar.rows[j])
             /\ annotations[k].mode = ModeVal(Sidecar.rows[j])

\* the group of a row as stated: group, else label, else the empty string
GroupAsStated(row) == Or(Or(Get(row, "group"), Get(row, "label")), "")

\* C20: after a successful Open every entry has the mode of a sidecar row
\* for its frame, the first non-empty of that row's mode, tag and name, and
\* the row's group, else its label, else the empty string; rows without a
\* usable mode leave no entry.
C20_RowReading ==
    (last.op = "Open" /\ last.res = "ok")
      => /\ DOMAIN annotations = FileFrames(Sidecar)
         /\ \A k \in DOMAIN annotations :
               LET row == Sidecar.rows[MaxOf(RowsFor(Sidecar, k))]
               IN  /\ annotations[k].mode = ModeVal(row)
                   /\ annotations[k].group = GroupAsStated(row)

\* C21: no operation of the core ends in an exception: an Open returns
\* True or False, also when a row of the sidecar has a frame that is no
\* integer.
C21_NoAbort ==
    last.op = "Open" => last.res \in {"ok", "fail"}

\* C22: a reload is never partial: with a path set, the capture, the cache
\* and the map belong to the video at the path; the cache is primed, and
\* after an Open that got past isOpened every sidecar row with an integer
\* frame and a usable mode has its entry.
C22_WholeReload ==
    path # NoPath
      => /\ cap.src = path
         /\ \A i \in 1..Len(frame_cache) : frame_cache[i] = FrameOf(path, i - 1)
         /\ Stream(path).n > 0 => frame_cache # <<>>
         /\ (last.op = "Open" /\ last.res # "fail")
              => \A i \in 1..Len(Sidecar.rows) :
                    (FrameParses(Sidecar.rows[i]) /\ ~Falsy(ModeVal(Sidecar.rows[i])))
                      => IntOfStr(Sidecar.rows[i]["frame"]) \in DOMAIN annotations

\* C23: a SaveSidecar that follows a SaveSidecar, the map not having
\* changed in between, leaves every sidecar file as it was.
C23_SaveIdempotent ==
    [][(last.op = "SaveSidecar" /\ last'.op = "SaveSidecar") => fs' = fs]_vars

\* C23 witness: a map of several labels has been saved, and a further save
\* writes the file that is there
C23_Witness ==
    /\ last.op = "SaveSidecar" /\ path # NoPath
    /\ Cardinality(DOMAIN annotations) >= 3
    /\ HoldsExactly(Sidecar, annotations)
    /\ SaveCsv(path, annotations, fs) = fs

C26_SaveWithoutPath ==
    [][(last'.op \in {"SaveSidecar", "SetLabel"} /\ path = NoPath)
         => /\ fs' = fs
            /\ UNCHANGED <<cap, path, frame_count, fps, current_frame, frame_cache>>
            /\ last'.op = "SaveSidecar" => UNCHANGED annotations]_vars

\* C26 witness: a save with labels in the map and no video ever opened has
\* left no written file
C26_Witness ==
    /\ last.op = "SaveSidecar" /\ path = NoPath /\ ~Truthy(cap)
    /\ DOMAIN annotations # {}
    /\ \A name \in DOMAIN fs : fs[name] \in InitFiles(name)

\* C28: for an index inside frame_count and outside the cache, GetFrame
\* seeks to index and decodes; if that fails and index > 0 it seeks to
\* index - 1, decodes, seeks to index and decodes again.  It returns the
\* frame of the decode that succeeded, and no frame when the second decode
\* fails or index is 0: a frame that decodes only after the frame before it
\* is found, a frame the stream does not have is not.
C28_SeekWithRetry ==
    [][(/\ last'.op = "GetFrame" /\ cap.opened
        /\ Len(frame_cache) <= last'.arg /\ last'.arg < frame_count
        /\ 0 <= last'.arg)
         => LET i == last'.arg
                first == Seek(cap, i)
                primed == AfterRead(Seek(AfterRead(first), i - 1))
                second == Seek(primed, i)
            IN  /\ IF CanRead(first)
                   THEN last'.frame = ReadFrame(first) /\ cap' = AfterRead(first)
                   ELSE IF i > 0
                        THEN /\ last'.frame = ReadFrame(second)
                             /\ cap' = AfterRead(second)
                        ELSE last'.frame = NoFrame /\ cap' = AfterRead(first)
                /\ last'.frame =
                      IF i < Stream(path).n THEN FrameOf(path, i) ELSE NoFrame]_vars

\* C28 witness: the frame past the cache that fails on a cold seek has been
\* returned by GetFrame
C28_Witness ==
    /\ last.op = "GetFrame" /\ last.arg \in Stream(path).cold
    /\ last.arg >= Len(frame_cache)
    /\ last.frame = FrameOf(path, last.arg)
    /\ cap.pos = last.arg + 1

\* C30: after a ReadNextFrame that succeeds the frame returned is the frame
\* at the new current_frame.
C30_ReadFollowsCursor ==
    [][(last'.op = "ReadNextFrame" /\ last'.frame # NoFrame)
         => last'.frame = FrameOf(path, current_frame')]_vars

\* the count the ladder gives for the stream at p: R is the reported count,
\* the decode at R - 1 comes right after a seek, land is the position read
\* back after it failed, and counted is the number of frames that decode in
\* sequence from frame 0
Ladder(p, land) ==
    LET R == Stream(p).reported
        counted == Stream(p).n
    IN  IF R > 0 /\ R - 1 < Stream(p).n /\ R - 1 \notin Stream(p).cold THEN R
        ELSE IF R > 0 /\ land > 0 THEN land
        ELSE Max(counted, R)

\* C27: the frame count Open takes from the probe is the ladder's: R when
\* R > 0 and frame R - 1 decodes, else the landing position when R > 0 and
\* that position is > 0, else max(counted, R); and the probe returns with
\* the decoder at 0.
C27_ProbeLadder ==
    (last.op = "Open" /\ last.res # "fail")
      => /\ frame_count = Ladder(path, last.land)
         /\ ProbeFrameCount(NewCap(path), last.land).cap.pos = 0
         /\ last.res = "raise" => cap.pos = 0

\* C27 witness: on a stream that reports more frames than it decodes the
\* landing position, above 0, became the frame count
C27_Witness ==
    /\ last.op = "Open" /\ last.res = "ok"
    /\ Stream(path).reported > Stream(path).n
    /\ last.land > 0 /\ last.land # Stream(path).reported
    /\ frame_count = last.land

C29_AutoLabelAdvances ==
    [][last'.op = "AutoLabelStep"
         => /\ current_frame \in DOMAIN annotations'
            /\ annotations'[current_frame] = LabelMap[active_label_char]
            /\ IF current_frame = frame_count - 1
               THEN ~label_timer' /\ current_frame' = current_frame
               ELSE /\ current_frame' = current_frame + 1
                    /\ current_frame' <= frame_count - 1]_vars

\* C31: whenever FillBetween gets past its rejections, prev and next are the
\* nearest labelled frames around the cursor and no index strictly between
\* them was labelled, so it fills next - prev - 1 >= 1 frames and never ends
\* with nothing to fill; afterwards every frame of [prev, next] carries one
\* (mode, group).
C31_FillIsWholeGap ==
    [][(/\ last'.op = "FillBetween"
        /\ last'.res \in {"noop", "filled"})
         => /\ last'.res = "filled"
            /\ Below(annotations, frame_count, current_frame) # {}
            /\ Above(annotations, frame_count, current_frame) # {}
            /\ last'.prev = MaxOf(Below(annotations, frame_count, current_frame))
            /\ last'.next = MinOf(Above(annotations, frame_count, current_frame))
            /\ \A i \in (last'.prev + 1)..(last'.next - 1) :
                  i \notin DOMAIN annotations
            /\ last'.filled = last'.next - last'.prev - 1
            /\ last'.filled >= 1
            /\ Cardinality((DOMAIN annotations') \ (DOMAIN annotations))
                  = last'.filled
            /\ \A i \in last'.prev..last'.next :
                  /\ i \in DOMAIN annotations'
                  /\ annotations'[i] = annotations'[last'.prev]]_vars

\* C31 witness: labels at 5, 10 and 15, the cursor on 7, the four frames of
\* the gap between 5 and 10 filled and the label at 15 left out of it
C31_Witness ==
    /\ last.op = "FillBetween" /\ last.res = "filled"
    /\ last.arg = 7 /\ last.prev = 5 /\ last.next = 10 /\ last.filled = 4
    /\ \A i \in 5..10 : annotations[i] = [mode |-> "A", group |-> "x"]
    /\ 15 \in DOMAIN annotations
    /\ DOMAIN annotations = (5..10) \cup {15}

\* C32: while label_timer is active a labelling key is held
\* (active_label_char is not None), in every interleaving of key presses,
\* releases of the held key and of other keys, mode toggles, timer
\* expiries and loads; the release of the held key and a load that succeeds
\* leave no key held and label_timer, label_delay_timer and
\* long_press_timer stopped.
C32_TimerNeedsKey ==
    /\ [](label_timer => active_label_char # None)
    /\ [][(\/ /\ last'.op = "KeyRelease"
               /\ active_label_char # None
               /\ last'.key = active_label_char
            \/ /\ last'.op = "Open"
               /\ last'.res = "ok")
            => /\ active_label_char' = None
               /\ ~label_timer'
               /\ ~label_delay_timer'
               /\ ~long_press_timer']_vars

\* C32 witness: K was held until the long press began and a frame was
\* labelled with it, and its release has stopped everything
C32_Witness ==
    /\ last.op = "KeyRelease" /\ last.key = "K"
    /\ active_label_char = None
    /\ ~label_timer /\ ~label_delay_timer /\ ~long_press_timer
    /\ is_long_press
    /\ cap.opened
    /\ \E f \in DOMAIN annotations : annotations[f] = LabelMap["K"]

\* C33: sidecars are per-video: no two video paths derive the same sidecar
\* path, so a SetLabel on the loaded video leaves the sidecar of every other
\* video as it was.
C33_SidecarPerVideo ==
    [][(last'.op = "SetLabel" /\ path # NoPath)
         => \A q \in VideoPaths \ {path} :
               /\ DeriveCsvPath(q) # DeriveCsvPath(path)
               /\ FileAt(fs', DeriveCsvPath(q)) = FileAt(fs, DeriveCsvPath(q))]_vars

====
